---- MODULE Spec2Model ----
(***************************************************************************)
(* hibernado plugin backend (src/main.py, class Plugin).                   *)
(*                                                                         *)
(* Every public coroutine of Plugin is a call running on the plugin's      *)
(* asyncio event loop.  A call is modelled step by step: one action per    *)
(* external interaction (helper run, boot-counter reset, resolution query, *)
(* sysfs write, sync), with the outcome of the interaction drawn from the  *)
(* outcomes the operating system can produce.  Texts are sequences of      *)
(* atoms (words); substring tests, strip() and split() work on atoms.      *)
(***************************************************************************)
EXTENDS Integers, Sequences, FiniteSets, TLC

\* Number of calls the host can have requested at the same time.
MaxTasks == 2

Tasks == 1..MaxTasks

\* Timeouts handed to _run_helper, in seconds.
StatusTimeout == 5
PrepareTimeout == 120
CleanupTimeout == 60
ActionTimeout == 10

(***************************************************************************)
(* Texts                                                                   *)
(***************************************************************************)
Whitespace == {" ", "\n"}

RECURSIVE LStrip(_)
LStrip(s) == IF s # <<>> /\ Head(s) \in Whitespace THEN LStrip(Tail(s)) ELSE s

RECURSIVE RStrip(_)
RStrip(s) ==
    IF s # <<>> /\ s[Len(s)] \in Whitespace
    THEN RStrip(SubSeq(s, 1, Len(s) - 1))
    ELSE s

\* str.strip()
Strip(s) == RStrip(LStrip(s))

\* str.lower(), atom by atom
LowerAtom(a) ==
    CASE a = "Timeout" -> "timeout"
      [] a = "Timed out" -> "timed out"
      [] OTHER -> a

Lower(s) == [i \in 1..Len(s) |-> LowerAtom(s[i])]

\* `needle in text` for a one-atom needle
Contains(s, a) == \E i \in 1..Len(s) : s[i] = a

\* `pat in text` for a pattern of several atoms
ContainsSeq(s, pat) ==
    \E i \in 1..(Len(s) - Len(pat) + 1) : SubSeq(s, i, i + Len(pat) - 1) = pat

\* str(timeout) in f"Timeout after {timeout} seconds"
NumText(n) ==
    CASE n = 5 -> "5"
      [] n = 10 -> "10"
      [] n = 60 -> "60"
      [] n = 120 -> "120"
      [] OTHER -> "?"

\* dict.get(key, default)
Get(d, k, default) == IF k \in DOMAIN d THEN d[k] ELSE default

\* `x or y` on texts
OrText(x, y) == IF x # <<>> THEN x ELSE y

\* Texts an OSError / exception raised by the operating system can carry.
ExcTexts == { <<"Permission denied">>, <<"Connection ", "timed out">> }

\* str(e) of a FileNotFoundError
NotFoundText == <<"No such file or directory">>

(***************************************************************************)
(* _run_helper                                                             *)
(***************************************************************************)
\* What running the helper can do: exit with a code, stdout and stderr;
\* exceed the timeout; or fail to be spawned.
HelperExit(rc, out, err) == [kind |-> "exit", rc |-> rc, stdout |-> out, stderr |-> err]

HelperTimeout == [kind |-> "timeout"]

HelperSpawnError(text) == [kind |-> "raise", text |-> text]

\* _run_helper: (returncode, stdout, stderr)
RunHelper(o, timeout) ==
    CASE o.kind = "exit" -> [rc |-> o.rc, stdout |-> o.stdout, stderr |-> o.stderr]
      [] o.kind = "timeout" ->
            [rc |-> -1, stdout |-> <<>>,
             stderr |-> <<"Timeout", " after ", NumText(timeout), " seconds">>]
      [] OTHER -> [rc |-> -1, stdout |-> <<>>, stderr |-> o.text]

(***************************************************************************)
(* check_hibernate_status                                                  *)
(***************************************************************************)
KnownTokens ==
    { "READY", "SWAPFILE_MISSING", "SWAPFILE_TOO_SMALL", "SWAP_INACTIVE",
      "RESUME_NOT_CONFIGURED", "SYSTEMD_NOT_CONFIGURED", "BLUETOOTH_FIX_MISSING",
      "SLEEP_CONF_NOT_CONFIGURED" }

\* What the helper can print for "status" when it exits 0.
StatusStdouts ==
    { <<tok, "\n">> : tok \in KnownTokens }
    \cup { <<"NEW_CHECK_MISSING", "\n">>, <<>>, <<"\n", "READY">> }

StatusOutcomes ==
    { HelperExit(0, s, <<>>) : s \in StatusStdouts }
    \cup { HelperExit(1, <<>>, <<"status failed">>),
           HelperExit(1, <<"READY", "\n">>, <<>>),
           HelperTimeout,
           HelperSpawnError(NotFoundText) }

\* What inspecting /etc/systemd/system/systemd-suspend.service can find.
LinkTargets ==
    { <<"/usr/lib/systemd/system/systemd-", "hibernate", ".service">>,
      <<"/usr/lib/systemd/system/systemd-", "suspend-then-", "hibernate", ".service">>,
      <<"/usr/lib/systemd/system/systemd-", "hybrid-sleep", ".service">> }

ProbeOutcomes ==
    { [kind |-> "nolink"], [kind |-> "raise"] }
    \cup { [kind |-> "link", target |-> t] : t \in LinkTargets }

\* The probe with the test for "hibernate" made first
ProbeOverrideHibernateFirst(p) ==
    IF p.kind = "link" /\ Contains(p.target, "hibernate")
    THEN [power_button_override |-> TRUE, override_mode |-> "hibernate"]
    ELSE IF p.kind = "link" /\ ContainsSeq(p.target, <<"suspend-then-", "hibernate">>)
    THEN [power_button_override |-> TRUE, override_mode |-> "suspend-then-hibernate"]
    ELSE [power_button_override |-> FALSE, override_mode |-> "hibernate"]

\* The power button override probe (defaults kept when nothing matches or
\* the inspection raises).
ProbeOverride(p) ==
    IF p.kind = "link" /\ ContainsSeq(p.target, <<"suspend-then-", "hibernate">>)
    THEN [power_button_override |-> TRUE, override_mode |-> "suspend-then-hibernate"]
    ELSE IF p.kind = "link" /\ Contains(p.target, "hibernate")
    THEN [power_button_override |-> TRUE, override_mode |-> "hibernate"]
    ELSE [power_button_override |-> FALSE, override_mode |-> "hibernate"]

\* The values of status_map, by key.
StatusMapTable(tok, pr) ==
    CASE tok = "READY" ->
            [success |-> TRUE, swapfile_exists |-> TRUE, swap_active |-> TRUE,
             resume_configured |-> TRUE, systemd_configured |-> TRUE,
             bluetooth_fix |-> TRUE, sleep_conf |-> TRUE, ready |-> TRUE,
             status_code |-> "READY",
             message |-> <<"Hibernation fully configured and ready">>,
             power_button_override |-> pr.power_button_override,
             override_mode |-> pr.override_mode]
      [] tok = "SWAPFILE_MISSING" ->
            [success |-> TRUE, swapfile_exists |-> FALSE, swap_active |-> FALSE,
             resume_configured |-> FALSE, ready |-> FALSE,
             status_code |-> "SWAPFILE_MISSING",
             message |-> <<"Swapfile not found - setup required">>,
             power_button_override |-> pr.power_button_override,
             override_mode |-> pr.override_mode]
      [] tok = "SWAPFILE_TOO_SMALL" ->
            [success |-> TRUE, swapfile_exists |-> TRUE, swap_active |-> FALSE,
             resume_configured |-> FALSE, ready |-> FALSE,
             status_code |-> "SWAPFILE_TOO_SMALL",
             message |-> <<"Swapfile too small (need 16GB+) - setup required">>,
             power_button_override |-> pr.power_button_override,
             override_mode |-> pr.override_mode]
      [] tok = "SWAP_INACTIVE" ->
            [success |-> TRUE, swapfile_exists |-> TRUE, swap_active |-> FALSE,
             resume_configured |-> FALSE, ready |-> FALSE,
             status_code |-> "SWAP_INACTIVE",
             message |-> <<"Swapfile exists but not activated - setup required">>,
             power_button_override |-> pr.power_button_override,
             override_mode |-> pr.override_mode]
      [] tok = "RESUME_NOT_CONFIGURED" ->
            [success |-> TRUE, swapfile_exists |-> TRUE, swap_active |-> TRUE,
             resume_configured |-> FALSE, ready |-> FALSE,
             status_code |-> "RESUME_NOT_CONFIGURED",
             message |-> <<"Resume parameters not configured - setup required">>,
             power_button_override |-> pr.power_button_override,
             override_mode |-> pr.override_mode]
      [] tok = "SYSTEMD_NOT_CONFIGURED" ->
            [success |-> TRUE, swapfile_exists |-> TRUE, swap_active |-> TRUE,
             resume_configured |-> TRUE, systemd_configured |-> FALSE,
             ready |-> FALSE, status_code |-> "SYSTEMD_NOT_CONFIGURED",
             message |-> <<"Systemd bypass not configured - setup required">>,
             power_button_override |-> pr.power_button_override,
             override_mode |-> pr.override_mode]
      [] tok = "BLUETOOTH_FIX_MISSING" ->
            [success |-> TRUE, swapfile_exists |-> TRUE, swap_active |-> TRUE,
             resume_configured |-> TRUE, systemd_configured |-> TRUE,
             bluetooth_fix |-> FALSE, ready |-> FALSE,
             status_code |-> "BLUETOOTH_FIX_MISSING",
             message |-> <<"Bluetooth fix service missing - setup required">>,
             power_button_override |-> pr.power_button_override,
             override_mode |-> pr.override_mode]
      [] tok = "SLEEP_CONF_NOT_CONFIGURED" ->
            [success |-> TRUE, swapfile_exists |-> TRUE, swap_active |-> TRUE,
             resume_configured |-> TRUE, systemd_configured |-> TRUE,
             bluetooth_fix |-> TRUE, sleep_conf |-> FALSE, ready |-> FALSE,
             status_code |-> "SLEEP_CONF_NOT_CONFIGURED",
             message |-> <<"Sleep configuration missing - setup required">>,
             power_button_override |-> pr.power_button_override,
             override_mode |-> pr.override_mode]

\* status_map with the flags of SWAP_INACTIVE exchanged
StatusMapEntrySwapped(tok, pr) ==
    IF tok = "SWAP_INACTIVE"
    THEN [StatusMapTable(tok, pr) EXCEPT !.swapfile_exists = FALSE, !.swap_active = TRUE]
    ELSE StatusMapTable(tok, pr)

\* status_map[tok]
StatusMapEntry(tok, pr) == StatusMapTable(tok, pr)

\* status_map.get(status, {... "UNKNOWN" ...})
StatusMapGet(status, pr) ==
    IF Len(status) = 1 /\ status[1] \in KnownTokens
    THEN StatusMapEntry(status[1], pr)
    ELSE [success |-> TRUE, ready |-> FALSE, status_code |-> "UNKNOWN",
          message |-> <<"Unknown status: ">> \o status,
          power_button_override |-> pr.power_button_override,
          override_mode |-> pr.override_mode]

\* The report returned when the helper's exit code is not 0.
StatusErrorReport(stderr) ==
    [success |-> FALSE, error |-> stderr, ready |-> FALSE, status_code |-> "ERROR",
     power_button_override |-> FALSE, override_mode |-> "hibernate"]

\* check_hibernate_status looking the raw stdout up
CheckHibernateStatusUnstripped(o, p) ==
    LET r == RunHelper(o, StatusTimeout)
    IN  IF r.rc # 0
        THEN StatusErrorReport(r.stderr)
        ELSE StatusMapGet(r.stdout, ProbeOverride(p))

\* check_hibernate_status reading the token whatever the exit code
CheckHibernateStatusIgnoringExit(o, p) ==
    StatusMapGet(Strip(RunHelper(o, StatusTimeout).stdout), ProbeOverride(p))

\* check_hibernate_status with no handler around the inspection of the
\* symlink: an error of the inspection reaches the outer handler
CheckHibernateStatusProbeUnguarded(o, p) ==
    LET r == RunHelper(o, StatusTimeout)
    IN  IF r.rc # 0
        THEN StatusErrorReport(r.stderr)
        ELSE IF p.kind = "raise"
        THEN StatusErrorReport(<<"Permission denied">>)
        ELSE StatusMapGet(Strip(r.stdout), ProbeOverride(p))

\* check_hibernate_status, given what the helper and the probe do.
CheckHibernateStatus(o, p) ==
    LET r == RunHelper(o, StatusTimeout)
    IN  IF r.rc # 0
        THEN StatusErrorReport(r.stderr)
        ELSE StatusMapGet(Strip(r.stdout), ProbeOverride(p))

(***************************************************************************)
(* prepare_hibernate                                                       *)
(***************************************************************************)
PrepareStdouts ==
    { <<"Hibernation configured", "\n">>,
      <<"Creating swapfile", "\n", "SUCCESS:", "abcd-uuid", ":", "4096", "\n">>,
      <<"SUCCESS:", "\n">> }

PrepareOutcomes ==
    { HelperExit(0, s, <<>>) : s \in PrepareStdouts }
    \cup { HelperExit(1, <<>>, <<"mkswap failed">>),
           HelperExit(2, <<"SUCCESS:", "abcd-uuid", ":", "4096">>, <<>>),
           HelperTimeout,
           HelperSpawnError(NotFoundText) }

\* Index of the first occurrence of atom d in s (Len(s) + 1 when absent).
RECURSIVE IndexOf(_, _)
IndexOf(s, d) ==
    IF s = <<>> \/ Head(s) = d THEN 1 ELSE 1 + IndexOf(Tail(s), d)

\* str.split(d)
RECURSIVE Split(_, _)
Split(s, d) ==
    IF ~Contains(s, d)
    THEN <<s>>
    ELSE LET i == IndexOf(s, d)
         IN  <<SubSeq(s, 1, i - 1)>> \o Split(SubSeq(s, i + 1, Len(s)), d)

\* prepare_hibernate with the exit code of the helper not looked at
PrepareHibernateIgnoringExit(o) ==
    [success |-> TRUE, message |-> <<"Hibernation setup completed successfully">>]

\* prepare_hibernate, given what the helper does.
PrepareHibernate(o) ==
    LET r == RunHelper(o, PrepareTimeout)
        output == Strip(r.stdout)
    IN  IF r.rc # 0
        THEN [success |-> FALSE,
              error |-> OrText(r.stderr, <<"Unknown error during setup">>)]
        ELSE IF Contains(output, "SUCCESS:")
        THEN LET parts == Split(Split(output, "SUCCESS:")[2], ":")
             IN  [success |-> TRUE,
                  message |-> <<"Hibernation setup completed successfully">>,
                  uuid |-> IF Len(parts) > 0 THEN parts[1] ELSE <<"unknown">>,
                  offset |-> IF Len(parts) > 1 THEN parts[2] ELSE <<"unknown">>]
        ELSE [success |-> TRUE,
              message |-> <<"Hibernation setup completed successfully">>]

(***************************************************************************)
(* trigger_hibernate: resume target resolution                             *)
(***************************************************************************)
\* What a subprocess.run of a query can do.
QueryExit(rc, out) == [kind |-> "exit", rc |-> rc, stdout |-> out]

QueryAborts == { [kind |-> "timeout"], [kind |-> "raise", text |-> NotFoundText] }

\* str(e) of the exception a query that did not complete raises
AbortText(o) ==
    IF o.kind = "timeout" THEN <<"Command ", "timed out", " after 5 seconds">> ELSE o.text

FindmntOutcomes ==
    { QueryExit(0, <<"/dev/nvme0n1p8", "\n">>), QueryExit(0, <<"\n">>),
      QueryExit(1, <<>>) }
    \cup QueryAborts

\* stat -c %t:%T prints two hexadecimal numerals, digit by digit here.
StatStdouts ==
    { <<"1", "0", "3", ":", "8", "\n">>,
      <<"8", ":", "1", "0", "\n">>,
      <<"?", "\n">>,
      <<"f", "d", ":", "z", "\n">> }

StatOutcomes ==
    { QueryExit(0, s) : s \in StatStdouts } \cup { QueryExit(1, <<>>) } \cup QueryAborts

HexDigits ==
    { "0", "1", "2", "3", "4", "5", "6", "7", "8", "9", "a", "b", "c", "d", "e", "f" }

HexDigitValue(c) ==
    CASE c = "0" -> 0 [] c = "1" -> 1 [] c = "2" -> 2 [] c = "3" -> 3
      [] c = "4" -> 4 [] c = "5" -> 5 [] c = "6" -> 6 [] c = "7" -> 7
      [] c = "8" -> 8 [] c = "9" -> 9 [] c = "a" -> 10 [] c = "b" -> 11
      [] c = "c" -> 12 [] c = "d" -> 13 [] c = "e" -> 14 [] c = "f" -> 15

\* int(s, 16) accepts s
IsHex(s) == s # <<>> /\ \A i \in 1..Len(s) : s[i] \in HexDigits

\* int(s, 16)
RECURSIVE HexInt(_)
HexInt(s) ==
    IF s = <<>> THEN 0
    ELSE 16 * HexInt(SubSeq(s, 1, Len(s) - 1)) + HexDigitValue(s[Len(s)])

\* major_hex, minor_hex = stdout.strip().split(":"), both parsed base 16:
\* the resume device text, or the ValueError raised.
ParseStat(stdout) ==
    LET parts == Split(Strip(stdout), ":")
    IN  IF Len(parts) > 2
        THEN [ok |-> FALSE, text |-> <<"too many values to unpack (expected 2)">>]
        ELSE IF Len(parts) < 2
        THEN [ok |-> FALSE,
              text |-> <<"not enough values to unpack (expected 2, got 1)">>]
        ELSE IF ~IsHex(parts[1]) \/ ~IsHex(parts[2])
        THEN [ok |-> FALSE, text |-> <<"invalid literal for int() with base 16">>]
        ELSE [ok |-> TRUE,
              resume_dev |-> <<ToString(HexInt(parts[1])), ":",
                               ToString(HexInt(parts[2]))>>]

\* filefrag -v output: lines, each a sequence of fields, each field a
\* sequence of atoms.
ExtentHeader ==
    << <<"ext:">>, <<"logical_offset:">>, <<"physical_offset:">>, <<"length:">> >>

ExtentLine(phys) ==
    << <<"0:">>, <<"0", ".", ".">>, <<"0:">>, phys, <<"34816:">>, <<"1:">> >>

ShortExtentLine == << <<"0:">>, <<"0", ".", ".">>, <<"0:">> >>

FilefragStdouts ==
    { <<ExtentHeader, ExtentLine(<<"34816", ".", ".">>)>>,
      <<ExtentHeader, ExtentLine(<<"7168", ".">>)>>,
      <<ExtentHeader>>,
      <<ExtentHeader, ShortExtentLine>>,
      <<ShortExtentLine, ExtentLine(<<"7168", ".", ".">>)>> }

FilefragOutcomes ==
    { QueryExit(0, s) : s \in FilefragStdouts } \cup { QueryExit(1, <<>>) } \cup QueryAborts

\* A strip that removes one trailing dot only
RStripDotsOnce(f) ==
    IF f # <<>> /\ f[Len(f)] = "." THEN SubSeq(f, 1, Len(f) - 1) ELSE f

\* str.rstrip(".")
RECURSIVE RStripDots(_)
RStripDots(f) ==
    IF f # <<>> /\ f[Len(f)] = "." THEN RStripDots(SubSeq(f, 1, Len(f) - 1)) ELSE f

\* line.strip().startswith("0:")
StartsWithZero(line) == line # <<>> /\ line[1] # <<>> /\ line[1][1] = "0:"

\* The for ... else loop over the extent lines: the offset of the first line
\* that starts with "0:" and has four fields, or the exception of the else.
RECURSIVE ParseOffset(_)
ParseOffset(lines) ==
    IF lines = <<>>
    THEN [ok |-> FALSE, text |-> <<"Could not parse swapfile offset">>]
    ELSE IF StartsWithZero(Head(lines)) /\ Len(Head(lines)) >= 4
    THEN [ok |-> TRUE, offset |-> RStripDots(Head(lines)[4])]
    ELSE ParseOffset(Tail(lines))

(***************************************************************************)
(* Results                                                                 *)
(***************************************************************************)
Failure(text) == [success |-> FALSE, error |-> text]

Success(text) == [success |-> TRUE, message |-> text]

\* "timeout" in str(e).lower() or "timed out" in str(e).lower()
TimeoutFlavored(text) ==
    Contains(Lower(text), "timeout") \/ Contains(Lower(text), "timed out")

(***************************************************************************)
(* Outcomes of the remaining external interactions                         *)
(***************************************************************************)
\* open(path, "w"), write, flush: done, or an OSError
WriteOutcomes == { [kind |-> "ok"] } \cup { [kind |-> "raise", text |-> x] : x \in ExcTexts }

\* subprocess.run(["/usr/bin/sync"], check=False), no timeout
SyncOutcomes ==
    { [kind |-> "exit", rc |-> 0], [kind |-> "exit", rc |-> 1] }
    \cup { [kind |-> "raise", text |-> x] : x \in ExcTexts \cup {NotFoundText} }

\* steamos-bootconf set-mode booted
BootconfOutcomes ==
    { [kind |-> "exit", rc |-> 0], [kind |-> "exit", rc |-> 1],
      [kind |-> "notfound"], [kind |-> "timeout"] }

\* systemctl start systemd-bless-boot.service
BlessOutcomes ==
    { [kind |-> "exit", rc |-> 0], [kind |-> "exit", rc |-> 1], [kind |-> "timeout"] }

SuspendOutcomes ==
    { HelperExit(0, <<>>, <<>>), HelperExit(1, <<>>, <<"systemctl failed">>),
      HelperExit(1, <<>>, <<>>), HelperTimeout, HelperSpawnError(NotFoundText) }

SetPowerButtonOutcomes ==
    { HelperExit(0, <<>>, <<>>), HelperExit(1, <<>>, <<"invalid mode">>),
      HelperExit(1, <<>>, <<>>), HelperTimeout }

CleanupOutcomes ==
    { HelperExit(0, <<>>, <<>>), HelperExit(1, <<>>, <<"rm failed">>),
      HelperExit(1, <<>>, <<>>), HelperTimeout }

(***************************************************************************)
(* Calls                                                                   *)
(***************************************************************************)
Ops ==
    { "check_hibernate_status", "prepare_hibernate", "trigger_hibernate",
      "hibernate_now", "suspend_then_hibernate", "set_power_button_override",
      "cleanup_hibernate" }

\* Values a caller can pass as mode.
Modes == { <<"hibernate">>, <<"suspend-then-hibernate">>, <<"poweroff">> }

NoArgs == [enabled |-> FALSE, mode |-> <<>>]

ArgsOf(o) ==
    IF o = "set_power_button_override"
    THEN [enabled : BOOLEAN, mode : Modes]
    ELSE {NoArgs}

\* A dict local that is not bound yet.
NoDict == [unset |-> TRUE]

VARIABLES
    pc,           \* task -> position in its call
    op,           \* task -> the public operation requested
    args,         \* task -> the arguments of the call
    status,       \* task -> local `status` of the workflow operations
    prep_result,  \* task -> local `prep_result`
    dev_path,     \* task -> local `dev_path`
    resume_dev,   \* task -> local `resume_dev`
    offset,       \* task -> local `offset`
    result,       \* task -> the dict the call returned
    log,          \* task -> the external interactions of the call, in order
    writes,       \* the sysfs write attempts of the calls in progress, in order
    running       \* the task the event loop is running, 0 when it is free

vars ==
    << pc, op, args, status, prep_result, dev_path, resume_dev, offset, result, log,
       writes, running >>

locals == << status, prep_result, dev_path, resume_dev, offset >>

Init ==
    /\ pc = [t \in Tasks |-> "idle"]
    /\ op = [t \in Tasks |-> "none"]
    /\ args = [t \in Tasks |-> NoArgs]
    /\ status = [t \in Tasks |-> NoDict]
    /\ prep_result = [t \in Tasks |-> NoDict]
    /\ dev_path = [t \in Tasks |-> <<>>]
    /\ resume_dev = [t \in Tasks |-> <<>>]
    /\ offset = [t \in Tasks |-> <<>>]
    /\ result = [t \in Tasks |-> NoDict]
    /\ log = [t \in Tasks |-> <<>>]
    /\ writes = <<>>
    /\ running = 0

\* One external interaction: what was run or written, the value passed or
\* read, whether it succeeded, and the text of the exception it raised.
Event(ev, arg, val, ok, err) ==
    [ev |-> ev, arg |-> arg, val |-> val, ok |-> ok, err |-> err]

\* The record of one run of the helper with outcome o: the action passed,
\* the stdout and the stderr _run_helper returned.
HelperEvent(action, o, timeout) ==
    Event("helper", action, RunHelper(o, timeout).stdout,
          RunHelper(o, timeout).rc = 0, RunHelper(o, timeout).stderr)

\* result.stdout of a query ("" when run did not complete)
QueryStdout(o) == IF o.kind = "exit" THEN o.stdout ELSE <<>>

\* The record of one subprocess.run of a query with outcome o: the command
\* with its argument, and the stdout read.
RunEvent(ev, cmd, val, o) ==
    Event(ev, cmd, val, o.kind = "exit" /\ o.rc = 0,
          IF o.kind \in {"exit", "ok"} THEN <<>> ELSE AbortText(o))

\* Positions of a call that awaited its subprocesses instead of blocking
SuspendsAtSubprocess(p) == p \in {"findmnt", "stat", "filefrag", "sync"}

\* The position at which a call gives the event loop back before it is
\* over: every external interaction is a blocking call (subprocess.run,
\* open/write) and every await is on a coroutine of the plugin itself, so
\* there is none.
Suspends(p) == FALSE

\* Task t is at position p and the event loop runs it.
At(t, p) == pc[t] = p /\ (running = t \/ running = 0)

\* Task t moves to position p.
Goto(t, p) ==
    /\ pc' = [pc EXCEPT ![t] = p]
    /\ running' = IF Suspends(p) THEN 0 ELSE t

\* The call of task t returns r.
Return(t, r) ==
    /\ result' = [result EXCEPT ![t] = r]
    /\ pc' = [pc EXCEPT ![t] = "done"]
    /\ running' = t

Logged(t, e) == log' = [log EXCEPT ![t] = Append(@, e)]

FirstPc(o) ==
    CASE o = "prepare_hibernate" -> "prepare"
      [] o = "trigger_hibernate" -> "reset"
      [] o = "cleanup_hibernate" -> "cleanup"
      [] OTHER -> "status"

\* The host asks for operation o with arguments a: a task is created for
\* the call, in the first free slot.  The loop creates tasks only while it
\* is free.
Request(t, o, a) ==
    /\ running = 0
    /\ pc[t] = "idle"
    /\ \A u \in Tasks : u < t => pc[u] # "idle"
    /\ op' = [op EXCEPT ![t] = o]
    /\ args' = [args EXCEPT ![t] = a]
    /\ pc' = [pc EXCEPT ![t] = "pending"]
    /\ UNCHANGED << locals, result, log, writes, running >>

\* A host that asks for one operation at a time.
Invoke(t) ==
    /\ \A u \in Tasks : pc[u] = "idle"
    /\ \E o \in Ops : \E a \in ArgsOf(o) : Request(t, o, a)

TriggerOps == { "trigger_hibernate", "hibernate_now" }

\* A host that asks for hibernation again while earlier requests are
\* still to be served.
InvokeTrigger(t) == \E o \in TriggerOps : Request(t, o, NoArgs)

\* The event loop starts running a requested call.
Begin(t) ==
    /\ running = 0
    /\ pc[t] = "pending"
    /\ pc' = [pc EXCEPT ![t] = FirstPc(op[t])]
    /\ running' = t
    /\ UNCHANGED << op, args, locals, result, log, writes >>

\* The host takes the returned dict; the task is over.
Collect(t) ==
    /\ pc[t] = "done"
    /\ running = t
    /\ pc' = [pc EXCEPT ![t] = "idle"]
    /\ op' = [op EXCEPT ![t] = "none"]
    /\ args' = [args EXCEPT ![t] = NoArgs]
    /\ status' = [status EXCEPT ![t] = NoDict]
    /\ prep_result' = [prep_result EXCEPT ![t] = NoDict]
    /\ dev_path' = [dev_path EXCEPT ![t] = <<>>]
    /\ resume_dev' = [resume_dev EXCEPT ![t] = <<>>]
    /\ offset' = [offset EXCEPT ![t] = <<>>]
    /\ result' = [result EXCEPT ![t] = NoDict]
    /\ log' = [log EXCEPT ![t] = <<>>]
    /\ writes' = SelectSeq(writes, LAMBDA w : w.task # t)
    /\ running' = 0

(***************************************************************************)
(* Steps of the calls                                                      *)
(***************************************************************************)
Workflow == { "hibernate_now", "suspend_then_hibernate" }

\* Task t goes on at position p, or returns r when p is "return".
Proceed(t, p, r) ==
    IF p = "return" THEN Return(t, r) ELSE Goto(t, p) /\ UNCHANGED result

SymlinkPath == <<"/etc/systemd/system/systemd-suspend.service">>

\* The interactions of check_hibernate_status: the helper run and, when it
\* exits 0, the inspection of the symlink.
StatusEvents(o, p) ==
    << HelperEvent(<<"status">>, o, StatusTimeout) >>
    \o IF RunHelper(o, StatusTimeout).rc = 0
       THEN << Event("probe", SymlinkPath, IF p.kind = "link" THEN p.target ELSE <<>>,
                     p.kind # "raise",
                     IF p.kind = "raise" THEN <<"Permission denied">> ELSE <<>>) >>
       ELSE <<>>

\* A workflow that prepares whatever the report says
AfterStatusAlwaysPrepare(o, rep) ==
    CASE o = "check_hibernate_status" -> "return"
      [] o \in Workflow -> "prepare"
      [] OTHER -> IF ~Get(rep, "ready", FALSE) THEN "return" ELSE "set_power_button"

\* set_power_button_override going on whatever the report says
AfterStatusSettingAnyway(o, rep) ==
    CASE o = "check_hibernate_status" -> "return"
      [] o = "hibernate_now" ->
            IF ~Get(rep, "ready", FALSE) THEN "prepare" ELSE "trigger"
      [] o = "suspend_then_hibernate" ->
            IF ~Get(rep, "ready", FALSE) THEN "prepare" ELSE "reset"
      [] OTHER -> "set_power_button"

\* A hibernate_now that gives up when the status check itself failed
AfterStatusStoppingOnError(o, rep) ==
    CASE o = "check_hibernate_status" -> "return"
      [] o = "hibernate_now" ->
            IF rep.status_code = "ERROR" THEN "return"
            ELSE IF ~Get(rep, "ready", FALSE) THEN "prepare" ELSE "trigger"
      [] o = "suspend_then_hibernate" ->
            IF ~Get(rep, "ready", FALSE) THEN "prepare" ELSE "reset"
      [] OTHER -> IF ~Get(rep, "ready", FALSE) THEN "return" ELSE "set_power_button"

\* What the caller of check_hibernate_status does with the report.
AfterStatus(o, rep) ==
    CASE o = "check_hibernate_status" -> "return"
      [] o = "hibernate_now" ->
            IF ~Get(rep, "ready", FALSE) THEN "prepare" ELSE "trigger"
      [] o = "suspend_then_hibernate" ->
            IF ~Get(rep, "ready", FALSE) THEN "prepare" ELSE "reset"
      [] OTHER -> IF ~Get(rep, "ready", FALSE) THEN "return" ELSE "set_power_button"

NotSetUp ==
    Failure(<<"Hibernation must be set up before enabling power button override">>)

\* check_hibernate_status, called directly or awaited by another operation,
\* with the helper and the probe behaving in one of the given ways.
CheckStatusWith(t, outcomes, probes) ==
    /\ At(t, "status")
    /\ \E o \in outcomes : \E p \in probes :
          LET rep == CheckHibernateStatus(o, p)
          IN  /\ log' = [log EXCEPT ![t] = @ \o StatusEvents(o, p)]
              /\ status' = [status EXCEPT ![t] =
                               IF op[t] = "check_hibernate_status" THEN @ ELSE rep]
              /\ Proceed(t, AfterStatus(op[t], rep),
                         IF op[t] = "check_hibernate_status" THEN rep ELSE NotSetUp)
    /\ UNCHANGED << op, args, prep_result, dev_path, resume_dev, offset, writes >>

CheckStatus(t) == CheckStatusWith(t, StatusOutcomes, ProbeOutcomes)

\* A workflow that goes on whatever prepare_hibernate returned
AfterPrepareIgnoringFailure(o, res) ==
    CASE o = "prepare_hibernate" -> "return"
      [] o = "hibernate_now" -> "trigger"
      [] OTHER -> "reset"

\* What the caller of prepare_hibernate does with its result.
AfterPrepare(o, res) ==
    CASE o = "prepare_hibernate" -> "return"
      [] ~Get(res, "success", FALSE) -> "return"
      [] o = "hibernate_now" -> "trigger"
      [] OTHER -> "reset"

\* prepare_hibernate, called directly or awaited by a workflow, with the
\* helper behaving in one of the given ways.
PrepareWith(t, outcomes) ==
    /\ At(t, "prepare")
    /\ \E o \in outcomes :
          LET res == PrepareHibernate(o)
          IN  /\ Logged(t, HelperEvent(<<"prepare">>, o, PrepareTimeout))
              /\ prep_result' = [prep_result EXCEPT ![t] =
                                    IF op[t] = "prepare_hibernate" THEN @ ELSE res]
              /\ Proceed(t, AfterPrepare(op[t], res), res)
    /\ UNCHANGED << op, args, status, dev_path, resume_dev, offset, writes >>

Prepare(t) == PrepareWith(t, PrepareOutcomes)

\* hibernate_now awaits trigger_hibernate.
AwaitTrigger(t) ==
    /\ At(t, "trigger")
    /\ Goto(t, "reset")
    /\ UNCHANGED << op, args, locals, result, log, writes >>

\* _reset_boot_counter's return value, given what the two commands do.
ResetBootCounter(o1, o2) ==
    CASE o1.kind = "exit" -> o1.rc = 0
      [] o1.kind = "notfound" -> o2.kind = "exit" /\ o2.rc = 0
      [] OTHER -> FALSE

\* The commands _reset_boot_counter runs: the fallback only when the
\* first is not installed.
ResetEvents(o1, o2) ==
    << Event("reset", <<"steamos-bootconf">>, <<>>, o1.kind = "exit" /\ o1.rc = 0, <<>>) >>
    \o IF o1.kind = "notfound"
       THEN << Event("reset", <<"systemd-bless-boot">>, <<>>,
                     o2.kind = "exit" /\ o2.rc = 0, <<>>) >>
       ELSE <<>>

\* A caller that gives up when the boot counter was not reset
AfterResetRequiringSuccess(o, booted) ==
    IF ~booted THEN "return"
    ELSE IF o = "suspend_then_hibernate" THEN "suspend" ELSE "findmnt"

\* A trigger that writes the resume target without resolving it in this run
AfterResetSkippingResolution(o, booted) ==
    IF o = "suspend_then_hibernate" THEN "suspend" ELSE "write_resume"

\* A suspend_then_hibernate that goes through the resolution of the trigger
AfterResetAlwaysResolving(o, booted) == "findmnt"

\* The position after the boot counter reset: its result is not looked at.
AfterReset(o, booted) ==
    IF o = "suspend_then_hibernate" THEN "suspend" ELSE "findmnt"

\* self._reset_boot_counter() in trigger_hibernate and suspend_then_hibernate
ResetStep(t) ==
    /\ At(t, "reset")
    /\ \E o1 \in BootconfOutcomes : \E o2 \in BlessOutcomes :
          /\ log' = [log EXCEPT ![t] = @ \o ResetEvents(o1, o2)]
          /\ Proceed(t, AfterReset(op[t], ResetBootCounter(o1, o2)),
                     Failure(<<"Boot counter reset failed">>))
    /\ UNCHANGED << op, args, locals, writes >>

\* A resolution whose timeouts are taken for the system going to sleep
ResumeFailureUnlessTimeout(text) ==
    IF TimeoutFlavored(text)
    THEN Success(<<"System is hibernating...">>)
    ELSE Failure(<<"Failed to set resume parameters: ">> \o text)

\* What trigger_hibernate returns when the resolution or a resume write
\* raised.
ResumeFailure(text) == Failure(<<"Failed to set resume parameters: ">> \o text)

\* The exception a query raises, if any: "" when it exits 0.
QueryError(o, nonzero) ==
    IF o.kind # "exit" THEN AbortText(o) ELSE IF o.rc # 0 THEN nonzero ELSE <<>>

\* findmnt -no SOURCE -T /home
Findmnt(t) ==
    /\ At(t, "findmnt")
    /\ \E o \in FindmntOutcomes :
          LET e == QueryError(o, <<"Could not find /home device">>)
          IN  /\ Logged(t, RunEvent("query", <<"findmnt">>, QueryStdout(o), o))
              /\ dev_path' = [dev_path EXCEPT ![t] = IF e = <<>> THEN Strip(o.stdout) ELSE @]
              /\ Proceed(t, IF e = <<>> THEN "stat" ELSE "return", ResumeFailure(e))
    /\ UNCHANGED << op, args, status, prep_result, resume_dev, offset, writes >>

\* stat -c %t:%T dev_path, then the parse of its output; stat of an empty
\* path exits non-zero.
Stat(t) ==
    /\ At(t, "stat")
    /\ \E o \in StatOutcomes :
          LET e0 == QueryError(o, <<"Could not stat device">>)
              e == IF e0 = <<>> /\ ~ParseStat(o.stdout).ok
                   THEN ParseStat(o.stdout).text ELSE e0
          IN  /\ dev_path[t] = <<>> => ~(o.kind = "exit" /\ o.rc = 0)
              /\ Logged(t, RunEvent("query", <<"stat">> \o dev_path[t], QueryStdout(o), o))
              /\ resume_dev' = [resume_dev EXCEPT ![t] =
                                   IF e = <<>> THEN ParseStat(o.stdout).resume_dev ELSE @]
              /\ Proceed(t, IF e = <<>> THEN "filefrag" ELSE "return", ResumeFailure(e))
    /\ UNCHANGED << op, args, status, prep_result, dev_path, offset, writes >>

\* filefrag -v /home/swapfile, then the parse of its output
Filefrag(t) ==
    /\ At(t, "filefrag")
    /\ \E o \in FilefragOutcomes :
          LET e0 == QueryError(o, <<"Could not get swapfile offset">>)
              e == IF e0 = <<>> /\ ~ParseOffset(o.stdout).ok
                   THEN ParseOffset(o.stdout).text ELSE e0
          IN  /\ Logged(t, RunEvent("query", <<"filefrag">>, QueryStdout(o), o))
              /\ offset' = [offset EXCEPT ![t] =
                               IF e = <<>> THEN ParseOffset(o.stdout).offset ELSE @]
              /\ Proceed(t, IF e = <<>> THEN "write_resume" ELSE "return",
                         ResumeFailure(e))
    /\ UNCHANGED << op, args, status, prep_result, dev_path, resume_dev, writes >>

\* One attempt to write val to a /sys/power file.
Wrote(t, file, val, o) ==
    /\ Logged(t, Event("write", <<file>>, val, o.kind = "ok",
                       IF o.kind = "ok" THEN <<>> ELSE o.text))
    /\ writes' = Append(writes, [task |-> t, file |-> file])

\* The exception text of a write outcome ("" when it succeeded).
WriteError(o) == IF o.kind = "ok" THEN <<>> ELSE o.text

\* A sequence that goes on after a failed write of /sys/power/resume
AfterWriteResumeIgnoringFailure(ok) == "write_resume_offset"

\* The position after the write of /sys/power/resume
AfterWriteResume(ok) == IF ok THEN "write_resume_offset" ELSE "return"

\* with open("/sys/power/resume", "w") as f: f.write(f"{resume_dev}\n")
WriteResume(t) ==
    /\ At(t, "write_resume")
    /\ \E o \in WriteOutcomes :
          /\ Wrote(t, "/sys/power/resume", resume_dev[t] \o <<"\n">>, o)
          /\ Proceed(t, AfterWriteResume(o.kind = "ok"), ResumeFailure(WriteError(o)))
    /\ UNCHANGED << op, args, locals >>

\* The position after the write of /sys/power/resume_offset
AfterWriteResumeOffset(ok) == IF ok THEN "write_disk" ELSE "return"

\* with open("/sys/power/resume_offset", "w") as f: f.write(f"{offset}\n")
WriteResumeOffset(t) ==
    /\ At(t, "write_resume_offset")
    /\ \E o \in WriteOutcomes :
          /\ Wrote(t, "/sys/power/resume_offset", offset[t] \o <<"\n">>, o)
          /\ Proceed(t, AfterWriteResumeOffset(o.kind = "ok"),
                     ResumeFailure(WriteError(o)))
    /\ UNCHANGED << op, args, locals >>

\* A sequence that ends at a failed write of /sys/power/disk
AfterWriteDiskRequiringSuccess(ok) == IF ok THEN "sync" ELSE "return"

\* The position after the write of /sys/power/disk: a failure is logged
\* and nothing else.
AfterWriteDisk(ok) == "sync"

\* with open("/sys/power/disk", "w") as f: f.write("platform\n")
WriteDisk(t) ==
    /\ At(t, "write_disk")
    /\ \E o \in WriteOutcomes :
          /\ Wrote(t, "/sys/power/disk", <<"platform", "\n">>, o)
          /\ Proceed(t, AfterWriteDisk(o.kind = "ok"),
                     Failure(<<"Could not set /sys/power/disk: ">> \o WriteError(o)))
    /\ UNCHANGED << op, args, locals >>

\* trigger_hibernate without its outer handler: the exception leaves the call
TriggerOuterExceptAbsent(e) == [raised |-> e]

\* What trigger_hibernate's outer handler returns for exception text e.
TriggerOuterExcept(e) ==
    IF TimeoutFlavored(e) THEN Success(<<"System is hibernating...">>) ELSE Failure(e)

\* subprocess.run(["/usr/bin/sync"], check=False): the exit code is not
\* looked at; an exception of run reaches the outer handler.
Sync(t) ==
    /\ At(t, "sync")
    /\ \E o \in SyncOutcomes :
          /\ Logged(t, Event("sync", <<"/usr/bin/sync">>, <<>>,
                             o.kind = "exit" /\ o.rc = 0,
                             IF o.kind = "raise" THEN o.text ELSE <<>>))
          /\ Proceed(t, IF o.kind = "raise" THEN "return" ELSE "write_state",
                     TriggerOuterExcept(IF o.kind = "raise" THEN o.text ELSE <<>>))
    /\ UNCHANGED << op, args, locals, writes >>

\* What trigger_hibernate returns after the write of /sys/power/state: the
\* handler around the write catches every exception of it.
StateWriteResult(o) ==
    IF o.kind = "ok"
    THEN Success(<<"System is hibernating...">>)
    ELSE Failure(<<"Failed to write to /sys/power/state: ">> \o o.text)

\* with open("/sys/power/state", "w") as f: f.write("disk\n")
WriteState(t) ==
    /\ At(t, "write_state")
    /\ \E o \in WriteOutcomes :
          /\ Wrote(t, "/sys/power/state", <<"disk", "\n">>, o)
          /\ Return(t, StateWriteResult(o))
    /\ UNCHANGED << op, args, locals >>

\* The result of a helper action whose output is not parsed.
HelperResult(r, unknown, done) ==
    IF r.rc # 0 THEN Failure(OrText(r.stderr, unknown)) ELSE Success(done)

\* suspend_then_hibernate: the helper action "suspend-then-hibernate"
Suspend(t) ==
    /\ At(t, "suspend")
    /\ \E o \in SuspendOutcomes :
          /\ Logged(t, HelperEvent(<<"suspend-then-hibernate">>, o, ActionTimeout))
          /\ Return(t, HelperResult(RunHelper(o, ActionTimeout),
               <<"Unknown error during suspend-then-hibernate">>,
               <<"System is suspending, then will hibernate...">>))
    /\ UNCHANGED << op, args, locals, writes >>

\* f"set-power-button {'enable' if enabled else 'disable'} {mode if enabled else ''}".strip()
SetPowerButtonAction(enabled, mode) ==
    Strip(<<"set-power-button", " ">>
          \o (IF enabled THEN <<"enable">> ELSE <<"disable">>)
          \o <<" ">>
          \o (IF enabled THEN mode ELSE <<>>))

\* set_power_button_override, after the readiness check
SetPowerButton(t) ==
    /\ At(t, "set_power_button")
    /\ \E o \in SetPowerButtonOutcomes :
          /\ Logged(t, HelperEvent(SetPowerButtonAction(args[t].enabled, args[t].mode),
                                   o, ActionTimeout))
          /\ Return(t, HelperResult(RunHelper(o, ActionTimeout),
               <<"Unknown error setting power button override">>,
               <<"Power button override ",
                 IF args[t].enabled THEN "enabled" ELSE "disabled">>))
    /\ UNCHANGED << op, args, locals, writes >>

\* cleanup_hibernate
Cleanup(t) ==
    /\ At(t, "cleanup")
    /\ \E o \in CleanupOutcomes :
          /\ Logged(t, HelperEvent(<<"cleanup">>, o, CleanupTimeout))
          /\ Return(t, HelperResult(RunHelper(o, CleanupTimeout),
               <<"Unknown error during cleanup">>,
               <<"All hibernation configuration removed. Reboot recommended.">>))
    /\ UNCHANGED << op, args, locals, writes >>

Next ==
    \E t \in Tasks :
        \/ Invoke(t)
        \/ Begin(t)
        \/ CheckStatus(t)
        \/ Prepare(t)
        \/ AwaitTrigger(t)
        \/ ResetStep(t)
        \/ Findmnt(t)
        \/ Stat(t)
        \/ Filefrag(t)
        \/ WriteResume(t)
        \/ WriteResumeOffset(t)
        \/ WriteDisk(t)
        \/ Sync(t)
        \/ WriteState(t)
        \/ Suspend(t)
        \/ SetPowerButton(t)
        \/ Cleanup(t)
        \/ Collect(t)

Spec == Init /\ [][Next]_vars

\* The helper outcomes drawn while hibernation is requested concurrently:
\* one of each kind the workflow tells apart.
GateStatusOutcomes ==
    { HelperExit(0, <<"READY", "\n">>, <<>>),
      HelperExit(0, <<"SWAPFILE_MISSING", "\n">>, <<>>),
      HelperTimeout }

GatePrepareOutcomes ==
    { HelperExit(0, <<"Hibernation configured", "\n">>, <<>>),
      HelperExit(1, <<>>, <<"mkswap failed">>) }

\* Hibernation requested concurrently.
NextConcurrent ==
    \E t \in Tasks :
        \/ InvokeTrigger(t)
        \/ Begin(t)
        \/ CheckStatusWith(t, GateStatusOutcomes, {[kind |-> "nolink"]})
        \/ PrepareWith(t, GatePrepareOutcomes)
        \/ AwaitTrigger(t)
        \/ ResetStep(t)
        \/ Findmnt(t)
        \/ Stat(t)
        \/ Filefrag(t)
        \/ WriteResume(t)
        \/ WriteResumeOffset(t)
        \/ WriteDisk(t)
        \/ Sync(t)
        \/ WriteState(t)
        \/ Collect(t)

SpecConcurrent == Init /\ [][NextConcurrent]_vars

(***************************************************************************)
(* Properties                                                              *)
(***************************************************************************)
\* The interaction e is a run of the helper with this action.
IsHelper(e, action) == e.ev = "helper" /\ e.arg = <<action>>

\* The interaction e is an attempt to write this /sys/power file.
IsWrite(e, file) == e.ev = "write" /\ e.arg = <<file>>

HasHelper(t, action) == \E i \in DOMAIN log[t] : IsHelper(log[t][i], action)

HasWrite(t, file) == \E i \in DOMAIN log[t] : IsWrite(log[t][i], file)

WriteOk(t, file) == \E i \in DOMAIN log[t] : IsWrite(log[t][i], file) /\ log[t][i].ok

WriteFailed(t, file) ==
    \E i \in DOMAIN log[t] : IsWrite(log[t][i], file) /\ ~log[t][i].ok

HasEvent(t, ev) == \E i \in DOMAIN log[t] : log[t][i].ev = ev

\* The sleep action of the two workflows.
IsSleepAction(e) ==
    IsWrite(e, "/sys/power/state") \/ IsHelper(e, "suspend-then-hibernate")

\* The report of the status check made in the call of task t.
ReportOf(t) == IF op[t] = "check_hibernate_status" THEN result[t] ELSE status[t]

\* C1: in a call of hibernate_now or suspend_then_hibernate the sleep action
\* (the write to /sys/power/state, the helper action suspend-then-hibernate)
\* comes only after a status check that reported ready or a "prepare" that
\* exited 0, earlier in the same call.
C1_SleepOnlyWhenPrepared ==
    \A t \in Tasks :
        op[t] \in Workflow =>
            \A i \in DOMAIN log[t] :
                IsSleepAction(log[t][i]) =>
                    \/ /\ \E j \in 1..(i - 1) : IsHelper(log[t][j], "status")
                       /\ Get(status[t], "ready", FALSE)
                    \/ \E j \in 1..(i - 1) :
                          IsHelper(log[t][j], "prepare") /\ log[t][j].ok

\* suspend_then_hibernate has issued its sleep action after a status check
\* that was not ready and a prepare.
C1_Witness ==
    \E t \in Tasks :
        /\ op[t] = "suspend_then_hibernate"
        /\ ~Get(status[t], "ready", FALSE)
        /\ HasHelper(t, "prepare")
        /\ HasHelper(t, "suspend-then-hibernate")

\* C2: when the status check of hibernate_now reports ready, the call never
\* runs the helper with "prepare": the interaction after the status check is
\* the first one of the trigger sequence.
C2_ReadySkipsPrepare ==
    \A t \in Tasks :
        (op[t] = "hibernate_now" /\ Get(status[t], "ready", FALSE)) =>
            /\ ~HasHelper(t, "prepare")
            /\ pc[t] \notin {"status", "prepare"}
            /\ \A i \in DOMAIN log[t] :
                  log[t][i].ev = "helper" => IsHelper(log[t][i], "status")
            /\ \A i \in DOMAIN log[t] :
                  (i > 1 /\ log[t][i - 1].ev = "probe") => log[t][i].ev = "reset"

\* hibernate_now found the system ready and reached the power-state write.
C2_Witness ==
    \E t \in Tasks :
        /\ op[t] = "hibernate_now"
        /\ Get(status[t], "ready", FALSE)
        /\ HasWrite(t, "/sys/power/state")
        /\ pc[t] = "done"

\* C3: in hibernate_now, when the status is not ready and "prepare" fails,
\* the call returns prepare's failure result and makes no resolution query
\* and no write to a /sys/power file.
C3_PrepareFailureShortCircuits ==
    \A t \in Tasks :
        ( /\ op[t] = "hibernate_now"
          /\ \E i \in DOMAIN log[t] : IsHelper(log[t][i], "prepare") /\ ~log[t][i].ok ) =>
            /\ pc[t] = "done"
            /\ result[t] = prep_result[t]
            /\ result[t].success = FALSE
            /\ "error" \in DOMAIN result[t]
            /\ ~HasEvent(t, "query")
            /\ ~HasEvent(t, "write")

\* hibernate_now returned after a prepare that timed out.
C3_Witness ==
    \E t \in Tasks :
        /\ op[t] = "hibernate_now"
        /\ pc[t] = "done"
        /\ \E i \in DOMAIN log[t] :
              /\ IsHelper(log[t][i], "prepare")
              /\ ~log[t][i].ok
              /\ log[t][i].err # <<>>

\* C4: when the write of "disk" to /sys/power/state raises an error whose
\* text is timeout-flavored, the trigger operation returns success with the
\* message "System is hibernating...".
C4_StateWriteTimeoutIsSuccess ==
    \A t \in Tasks :
        ( /\ pc[t] = "done"
          /\ op[t] \in TriggerOps
          /\ \E i \in DOMAIN log[t] :
                /\ IsWrite(log[t][i], "/sys/power/state")
                /\ ~log[t][i].ok
                /\ TimeoutFlavored(log[t][i].err) ) =>
            result[t] = Success(<<"System is hibernating...">>)

\* The files of the trigger sequence, in order.
TriggerOrder ==
    << "/sys/power/resume", "/sys/power/resume_offset", "/sys/power/disk",
       "/usr/bin/sync", "/sys/power/state" >>

\* The writes and the sync of the call of task t, in order.
TriggerSteps(t) == SelectSeq(log[t], LAMBDA e : e.ev \in {"write", "sync"})

\* C5: the trigger sequence is resume device, resume offset, hibernation
\* mode, sync, power state, in this order; a failed resume-device write is
\* followed by no resume-offset and no power-state write, a failed
\* resume-offset write by no power-state write, and the result is a failure.
C5_StrictWriteOrder ==
    \A t \in Tasks :
        /\ Len(TriggerSteps(t)) <= Len(TriggerOrder)
        /\ \A i \in DOMAIN TriggerSteps(t) : TriggerSteps(t)[i].arg = <<TriggerOrder[i]>>
        /\ WriteFailed(t, "/sys/power/resume") =>
              /\ ~HasWrite(t, "/sys/power/resume_offset")
              /\ ~HasWrite(t, "/sys/power/state")
              /\ pc[t] = "done"
              /\ result[t].success = FALSE
        /\ WriteFailed(t, "/sys/power/resume_offset") =>
              /\ ~HasWrite(t, "/sys/power/state")
              /\ pc[t] = "done"
              /\ result[t].success = FALSE

\* A trigger ended at a failed resume-offset write, after the resume-device
\* write had succeeded.
C5_Witness ==
    \E t \in Tasks :
        /\ WriteOk(t, "/sys/power/resume")
        /\ WriteFailed(t, "/sys/power/resume_offset")
        /\ pc[t] = "done"

\* C6: the sysfs writes of two hibernation triggers requested concurrently
\* are never interleaved: no write of one call lies between two writes of
\* another.
C6_TriggersSerialized ==
    \A i, j, k \in DOMAIN writes :
        (i < j /\ j < k /\ writes[i].task = writes[k].task) =>
            writes[j].task = writes[i].task

\* One trigger is in the middle of its writes while another requested
\* trigger waits for the event loop.
C6_Witness ==
    \E t, u \in Tasks :
        /\ t # u
        /\ op[t] \in TriggerOps
        /\ op[u] \in TriggerOps
        /\ pc[u] = "pending"
        /\ pc[t] = "write_state"
        /\ Len(SelectSeq(writes, LAMBDA w : w.task = t)) = 3

\* C7: a failure of the sync step never prevents the power-state write: a
\* trigger whose resume-device and resume-offset writes succeeded has
\* attempted the power-state write when it returns.
C7_SyncNeverBlocks ==
    \A t \in Tasks :
        ( /\ pc[t] = "done"
          /\ WriteOk(t, "/sys/power/resume")
          /\ WriteOk(t, "/sys/power/resume_offset") ) =>
            HasWrite(t, "/sys/power/state")

\* The sync command of the call of task t was started (run did not raise).
SyncStarted(t) == \E i \in DOMAIN log[t] : log[t][i].ev = "sync" /\ log[t][i].err = <<>>

\* C8: the boot-counter reset comes before every resolution query and sysfs
\* write of the trigger; a failed reset never ends the call, a failed
\* hibernation-mode write never ends the call, and with the resume writes
\* done and sync started the power-state write is attempted whatever the
\* reset and the hibernation-mode write did.
C8_BestEffortStepsNeverAbort ==
    \A t \in Tasks :
        /\ \A i \in DOMAIN log[t] :
              log[t][i].ev \in {"query", "write", "sync"} =>
                  \E j \in 1..(i - 1) : log[t][j].ev = "reset"
        /\ (op[t] \in TriggerOps /\ pc[t] = "done" /\ HasEvent(t, "reset")) =>
              HasEvent(t, "query")
        /\ (pc[t] = "done" /\ HasWrite(t, "/sys/power/disk")) => HasEvent(t, "sync")
        /\ (pc[t] = "done" /\ WriteOk(t, "/sys/power/resume_offset") /\ SyncStarted(t)) =>
              HasWrite(t, "/sys/power/state")

\* A trigger whose two reset strategies and whose hibernation-mode write
\* all failed has written the power state.
C8_Witness ==
    \E t \in Tasks :
        /\ op[t] \in TriggerOps
        /\ \E i \in DOMAIN log[t] :
              log[t][i].ev = "reset" /\ log[t][i].arg = <<"systemd-bless-boot">>
        /\ \A i \in DOMAIN log[t] : log[t][i].ev = "reset" => ~log[t][i].ok
        /\ WriteFailed(t, "/sys/power/disk")
        /\ WriteOk(t, "/sys/power/state")

\* The six readiness flags, in the order of the prerequisites.
FlagOrder ==
    << "swapfile_exists", "swap_active", "resume_configured", "systemd_configured",
       "bluetooth_fix", "sleep_conf" >>

\* The flags a report asserts.
TrueFlags(rep) == { i \in DOMAIN FlagOrder : Get(rep, FlagOrder[i], FALSE) }

\* The number of prerequisite checks that have passed when the helper
\* reports the token.
ChecksPassed(tok) ==
    CASE tok = "SWAPFILE_MISSING" -> 0
      [] tok = "SWAPFILE_TOO_SMALL" -> 1
      [] tok = "SWAP_INACTIVE" -> 1
      [] tok = "RESUME_NOT_CONFIGURED" -> 2
      [] tok = "SYSTEMD_NOT_CONFIGURED" -> 3
      [] tok = "BLUETOOTH_FIX_MISSING" -> 4
      [] tok = "SLEEP_CONF_NOT_CONFIGURED" -> 5
      [] tok = "READY" -> 6

\* The rank of a token in the order of the prerequisites.
Rank(tok) ==
    CASE tok = "SWAPFILE_MISSING" -> 1
      [] tok = "SWAPFILE_TOO_SMALL" -> 2
      [] tok = "SWAP_INACTIVE" -> 3
      [] tok = "RESUME_NOT_CONFIGURED" -> 4
      [] tok = "SYSTEMD_NOT_CONFIGURED" -> 5
      [] tok = "BLUETOOTH_FIX_MISSING" -> 6
      [] tok = "SLEEP_CONF_NOT_CONFIGURED" -> 7
      [] tok = "READY" -> 8

\* The call of task t has made its status check, the helper exited 0 and
\* printed text whose token (the text without surrounding whitespace) is tok.
StatusPrinted(t, tok) ==
    /\ ReportOf(t) # NoDict
    /\ \E i \in DOMAIN log[t] :
          /\ IsHelper(log[t][i], "status")
          /\ log[t][i].ok
          /\ Strip(log[t][i].val) = tok

\* The texts the helper printed that are no known token.
UnknownTexts == { Strip(s) : s \in StatusStdouts } \ { <<tok>> : tok \in KnownTokens }

\* C9: when "status" exits 0, each of the 8 known tokens gives a report
\* whose status_code is the token, whose true flags are exactly the checks
\* that passed at its rank and whose ready is true only for READY; any other
\* text gives status_code UNKNOWN, ready false, no flag true, and no error.
C9_TokenMapping ==
    \A t \in Tasks :
        /\ \A tok \in KnownTokens :
              StatusPrinted(t, <<tok>>) =>
                  /\ ReportOf(t).status_code = tok
                  /\ ReportOf(t).success = TRUE
                  /\ TrueFlags(ReportOf(t)) = 1..ChecksPassed(tok)
                  /\ ReportOf(t).ready = (tok = "READY")
        /\ \A x \in UnknownTexts :
              StatusPrinted(t, x) =>
                  /\ ReportOf(t).status_code = "UNKNOWN"
                  /\ ReportOf(t).ready = FALSE
                  /\ TrueFlags(ReportOf(t)) = {}
                  /\ ReportOf(t).success = TRUE
                  /\ "error" \notin DOMAIN ReportOf(t)

\* A status check returned the report of BLUETOOTH_FIX_MISSING, printed
\* with a trailing newline.
C9_Witness ==
    \E t \in Tasks :
        /\ op[t] = "check_hibernate_status"
        /\ pc[t] = "done"
        /\ StatusPrinted(t, <<"BLUETOOTH_FIX_MISSING">>)
        /\ log[t][1].val = <<"BLUETOOTH_FIX_MISSING", "\n">>
        /\ TrueFlags(result[t]) = 1..4

\* C10: in every report of check_hibernate_status a true flag implies every
\* earlier flag, ready implies all six flags, and the report of a token of
\* higher rank asserts every flag this report asserts.
C10_FlagsMonotone ==
    \A t \in Tasks :
        ReportOf(t) # NoDict =>
            /\ \A i \in TrueFlags(ReportOf(t)) : 1..i \subseteq TrueFlags(ReportOf(t))
            /\ Get(ReportOf(t), "ready", FALSE) =>
                  TrueFlags(ReportOf(t)) = DOMAIN FlagOrder
            /\ \A tok \in KnownTokens :
                  ( /\ ReportOf(t).status_code \in KnownTokens
                    /\ Rank(tok) >= Rank(ReportOf(t).status_code) ) =>
                      TrueFlags(ReportOf(t))
                          \subseteq TrueFlags(
                                CheckHibernateStatus(HelperExit(0, <<tok, "\n">>, <<>>),
                                                     [kind |-> "nolink"]))

\* A status check returned SWAP_INACTIVE, whose only true flag is the first.
C10_Witness ==
    \E t \in Tasks :
        /\ pc[t] = "done"
        /\ op[t] = "check_hibernate_status"
        /\ result[t].status_code = "SWAP_INACTIVE"
        /\ TrueFlags(result[t]) = {1}

\* C11: when the helper run for "status" exits non-zero, times out or cannot
\* be spawned, check_hibernate_status returns the error report: success
\* false, status_code ERROR, ready false, error the stderr the helper run
\* gave (the helper's stderr, "Timeout after 5 seconds" or the text of the
\* spawn error), the override fields at their defaults; the symlink is not
\* inspected.
C11_StatusFailureIsErrorReport ==
    \A t \in Tasks :
        \A i \in DOMAIN log[t] :
            (IsHelper(log[t][i], "status") /\ ~log[t][i].ok) =>
                /\ ReportOf(t) # NoDict
                /\ ReportOf(t).success = FALSE
                /\ ReportOf(t).status_code = "ERROR"
                /\ ReportOf(t).ready = FALSE
                /\ ReportOf(t).error = log[t][i].err
                /\ ReportOf(t).error \in
                      { <<"status failed">>, <<>>, NotFoundText,
                        <<"Timeout", " after ", "5", " seconds">> }
                /\ ReportOf(t).power_button_override = FALSE
                /\ TrueFlags(ReportOf(t)) = {}
                /\ ~HasEvent(t, "probe")

\* A status check whose helper printed READY and exited non-zero returned
\* the error report.
C11_Witness ==
    \E t \in Tasks :
        /\ op[t] = "check_hibernate_status"
        /\ pc[t] = "done"
        /\ log[t][1].val = <<"READY", "\n">>
        /\ ~log[t][1].ok
        /\ result[t].status_code = "ERROR"

\* C12: when "status" exits 0 the symlink is inspected; an absent symlink
\* or an error of the inspection gives power_button_override false, the
\* report is still a success, and its status_code, ready and readiness
\* flags are those of the printed text under every other outcome of the
\* inspection.
C12_ProbeIsAdvisory ==
    \A t \in Tasks :
        \A i \in DOMAIN log[t] :
            (IsHelper(log[t][i], "status") /\ log[t][i].ok) =>
                /\ i + 1 \in DOMAIN log[t]
                /\ log[t][i + 1].ev = "probe"
                /\ ReportOf(t).success = TRUE
                /\ (log[t][i + 1].val = <<>>) =>
                      ReportOf(t).power_button_override = FALSE
                /\ \A p \in ProbeOutcomes :
                      LET other ==
                            CheckHibernateStatus(HelperExit(0, log[t][i].val, <<>>), p)
                      IN  /\ other.status_code = ReportOf(t).status_code
                          /\ other.ready = ReportOf(t).ready
                          /\ TrueFlags(other) = TrueFlags(ReportOf(t))

\* A status check whose inspection of the symlink raised returned the READY
\* report without an override.
C12_Witness ==
    \E t \in Tasks :
        /\ op[t] = "check_hibernate_status"
        /\ pc[t] = "done"
        /\ Len(log[t]) = 2
        /\ log[t][2].ev = "probe"
        /\ ~log[t][2].ok
        /\ result[t].ready = TRUE
        /\ result[t].power_button_override = FALSE

\* The helper runs of the call of task t, in order.
HelperRuns(t) == SelectSeq(log[t], LAMBDA e : e.ev = "helper")

\* The action set_power_button_override is to pass for its arguments.
ExpectedSetAction(a) ==
    IF a.enabled
    THEN <<"set-power-button", " ", "enable", " ">> \o a.mode
    ELSE <<"set-power-button", " ", "disable">>

\* C13: every call of set_power_button_override first runs the helper with
\* "status"; unless the report of that check has ready true the call returns
\* success false and runs the helper with nothing else; when it is ready the
\* call runs the helper once more, with "set-power-button enable <mode>" if
\* enabled and "set-power-button disable" if not.
C13_OverrideRequiresReady ==
    \A t \in Tasks :
        op[t] = "set_power_button_override" =>
            /\ pc[t] \notin {"idle", "pending", "status"} =>
                  /\ log[t] # <<>>
                  /\ IsHelper(log[t][1], "status")
            /\ \A i \in DOMAIN HelperRuns(t) :
                  i > 1 =>
                      /\ i = 2
                      /\ Get(status[t], "ready", FALSE)
                      /\ HelperRuns(t)[i].arg = ExpectedSetAction(args[t])
            /\ (pc[t] = "done" /\ ~Get(status[t], "ready", FALSE)) =>
                  /\ result[t].success = FALSE
                  /\ "error" \in DOMAIN result[t]
                  /\ Len(HelperRuns(t)) = 1
            /\ (pc[t] = "done" /\ Get(status[t], "ready", FALSE)) =>
                  Len(HelperRuns(t)) = 2

\* set_power_button_override(False, "suspend-then-hibernate") on a ready
\* system ran "set-power-button disable".
C13_Witness ==
    \E t \in Tasks :
        /\ op[t] = "set_power_button_override"
        /\ pc[t] = "done"
        /\ ~args[t].enabled
        /\ args[t].mode = <<"suspend-then-hibernate">>
        /\ Len(log[t]) = 3
        /\ log[t][3].arg = <<"set-power-button", " ", "disable">>
        /\ result[t].success = TRUE

\* The two hibernation modes.
HibernateModes == { <<"hibernate">>, <<"suspend-then-hibernate">> }

\* The actions the helper accepts.
ClosedActions ==
    { <<"status">>, <<"prepare">>, <<"cleanup">>, <<"suspend-then-hibernate">>,
      <<"set-power-button", " ", "disable">> }
    \cup { <<"set-power-button", " ", "enable", " ">> \o m : m \in HibernateModes }

\* C14: every run of the helper, in every call with any arguments, passes
\* one action of the closed set: status, prepare, cleanup,
\* suspend-then-hibernate, set-power-button enable hibernate,
\* set-power-button enable suspend-then-hibernate, set-power-button disable.
C14_HelperActionsClosed ==
    \A t \in Tasks :
        \A i \in DOMAIN log[t] :
            log[t][i].ev = "helper" => log[t][i].arg \in ClosedActions

\* The interaction e is a completed run of the query cmd that exited 0.
IsQueryOk(e, cmd) == e.ev = "query" /\ e.arg[1] = cmd /\ e.ok

\* The text f"{major}:{minor}" for the output of stat.
DeviceNumbers(stdout) ==
    LET parts == Split(Strip(stdout), ":")
    IN  <<ToString(HexInt(parts[1])), ":", ToString(HexInt(parts[2]))>>

\* C15: the resume target is resolved in every trigger run: no local of the
\* resolution is bound when the run starts, the value written to
\* /sys/power/resume is the device numbers printed by the stat of this run,
\* made on the device the findmnt of this run printed, and the value written
\* to /sys/power/resume_offset is the offset parsed from the filefrag
\* output of this run.
C15_ResolvedInSameRun ==
    \A t \in Tasks :
        /\ pc[t] \in {"idle", "pending", "status", "prepare", "trigger", "reset"} =>
              /\ dev_path[t] = <<>> /\ resume_dev[t] = <<>> /\ offset[t] = <<>>
              /\ ~HasEvent(t, "query")
        /\ \A i \in DOMAIN log[t] :
              IsWrite(log[t][i], "/sys/power/resume") =>
                  \E j, k \in 1..(i - 1) :
                      /\ j < k
                      /\ IsQueryOk(log[t][j], "findmnt")
                      /\ IsQueryOk(log[t][k], "stat")
                      /\ log[t][k].arg = <<"stat">> \o Strip(log[t][j].val)
                      /\ log[t][i].val = DeviceNumbers(log[t][k].val) \o <<"\n">>
        /\ \A i \in DOMAIN log[t] :
              IsWrite(log[t][i], "/sys/power/resume_offset") =>
                  \E k \in 1..(i - 1) :
                      /\ IsQueryOk(log[t][k], "filefrag")
                      /\ ParseOffset(log[t][k].val).ok
                      /\ log[t][i].val = ParseOffset(log[t][k].val).offset \o <<"\n">>

\* A trigger whose stat printed 8:10 and whose filefrag printed the extent
\* at 7168 wrote 8:16 and 7168.
C15_Witness ==
    \E t \in Tasks :
        /\ op[t] = "trigger_hibernate"
        /\ \E k \in DOMAIN log[t] :
              IsQueryOk(log[t][k], "stat") /\ log[t][k].val = <<"8", ":", "1", "0", "\n">>
        /\ \E i \in DOMAIN log[t] :
              /\ IsWrite(log[t][i], "/sys/power/resume")
              /\ log[t][i].val = <<"8", ":", "16", "\n">>
        /\ \E i \in DOMAIN log[t] :
              /\ IsWrite(log[t][i], "/sys/power/resume_offset")
              /\ log[t][i].val = <<"7168", "\n">>

\* The actions passed to the helper in the call of task t, in order.
HelperActions(t) == [i \in 1..Len(HelperRuns(t)) |-> HelperRuns(t)[i].arg]

\* s is the beginning of full.
IsPrefix(s, full) == Len(s) <= Len(full) /\ s = SubSeq(full, 1, Len(s))

\* C16: suspend_then_hibernate makes no resolution query, writes no
\* /sys/power file and runs no sync; it runs the helper with status, then
\* prepare when the report is not ready, then suspend-then-hibernate, and
\* resets the boot counter before the last.
C16_SuspendPathFrame ==
    \A t \in Tasks :
        op[t] = "suspend_then_hibernate" =>
            /\ ~HasEvent(t, "query")
            /\ ~HasEvent(t, "write")
            /\ ~HasEvent(t, "sync")
            /\ \A i \in DOMAIN writes : writes[i].task # t
            /\ \A i \in DOMAIN log[t] : log[t][i].ev \in {"helper", "probe", "reset"}
            /\ \/ IsPrefix(HelperActions(t),
                           << <<"status">>, <<"suspend-then-hibernate">> >>)
               \/ IsPrefix(HelperActions(t),
                           << <<"status">>, <<"prepare">>, <<"suspend-then-hibernate">> >>)
            /\ HasHelper(t, "prepare") => ~Get(status[t], "ready", FALSE)
            /\ \A i \in DOMAIN log[t] :
                  IsHelper(log[t][i], "suspend-then-hibernate") =>
                      /\ i > 1
                      /\ log[t][i - 1].ev = "reset"
                      /\ i = Len(log[t])

\* suspend_then_hibernate on a system that was not ready prepared it, reset
\* the boot counter and returned after the helper action succeeded.
C16_Witness ==
    \E t \in Tasks :
        /\ op[t] = "suspend_then_hibernate"
        /\ pc[t] = "done"
        /\ HasHelper(t, "prepare")
        /\ HasEvent(t, "reset")
        /\ result[t] = Success(<<"System is suspending, then will hibernate...">>)

\* C17: every call of a public operation ends by returning a dict with a
\* boolean success, a message when success is true and an error when it is
\* false; no call ends with an exception.
C17_StructuredResult ==
    \A t \in Tasks :
        pc[t] = "done" =>
            /\ op[t] \in Ops
            /\ "success" \in DOMAIN result[t]
            /\ "raised" \notin DOMAIN result[t]
            /\ result[t].success \in BOOLEAN
            /\ result[t].success => "message" \in DOMAIN result[t]
            /\ ~result[t].success => "error" \in DOMAIN result[t]

\* A trigger whose sync command could not be started returned the failure
\* built by its outer handler.
C17_Witness ==
    \E t \in Tasks :
        /\ op[t] = "trigger_hibernate"
        /\ pc[t] = "done"
        /\ \E i \in DOMAIN log[t] : log[t][i].ev = "sync" /\ log[t][i].err = NotFoundText
        /\ result[t] = Failure(NotFoundText)

\* The result of the prepare_hibernate made in the call of task t.
PrepareResultOf(t) == IF op[t] = "prepare_hibernate" THEN result[t] ELSE prep_result[t]

\* The colon-delimited fields that follow the marker in the output of
\* "prepare" (none when nothing follows it).
FieldsAfterMarker(output) ==
    LET rest == Split(output, "SUCCESS:")[2]
    IN  IF rest = <<>> THEN <<>> ELSE Split(rest, ":")

\* Field n of fs, "unknown" when it is missing.
FieldOrUnknown(fs, n) == IF n <= Len(fs) THEN fs[n] ELSE <<"unknown">>

\* C18: when "prepare" exits 0 and prints the marker SUCCESS:, the result of
\* prepare_hibernate has success true, uuid the first field after the
\* marker and offset the second, each "unknown" when the field is missing;
\* when the marker is absent the result has success true, no uuid and no
\* offset.
C18_PrepareOutputParsed ==
    \A t \in Tasks :
        \A i \in DOMAIN log[t] :
            (IsHelper(log[t][i], "prepare") /\ log[t][i].ok) =>
                LET output == Strip(log[t][i].val)
                    res == PrepareResultOf(t)
                IN  /\ res.success = TRUE
                    /\ IF Contains(output, "SUCCESS:")
                       THEN /\ res.uuid = FieldOrUnknown(FieldsAfterMarker(output), 1)
                            /\ res.offset = FieldOrUnknown(FieldsAfterMarker(output), 2)
                       ELSE /\ "uuid" \notin DOMAIN res
                            /\ "offset" \notin DOMAIN res

\* The helper run e timed out.
HelperTimedOut(e) == e.ev = "helper" /\ e.err # <<>> /\ e.err[1] = "Timeout"

\* The query e timed out.
QueryTimedOut(e) == e.ev = "query" /\ Contains(e.err, "timed out")

\* C19: a timeout of the findmnt, stat or filefrag query ends the trigger
\* with success false, and no /sys/power file is written in that call; a
\* timeout of the helper actions prepare, suspend-then-hibernate or
\* set-power-button ends the operation that ran it with success false.
C19_TimeoutsAreFailures ==
    \A t \in Tasks :
        \A i \in DOMAIN log[t] :
            /\ QueryTimedOut(log[t][i]) =>
                  /\ pc[t] = "done"
                  /\ i = Len(log[t])
                  /\ result[t].success = FALSE
                  /\ ~HasEvent(t, "write")
                  /\ ~HasEvent(t, "sync")
            /\ (HelperTimedOut(log[t][i]) /\ ~IsHelper(log[t][i], "status")) =>
                  /\ log[t][i].arg[1]
                        \in {"prepare", "suspend-then-hibernate", "set-power-button",
                             "cleanup"}
                  /\ pc[t] = "done"
                  /\ i = Len(log[t])
                  /\ result[t].success = FALSE

\* hibernate_now on a ready system ended with a failure at a filefrag that
\* timed out.
C19_Witness ==
    \E t \in Tasks :
        /\ op[t] = "hibernate_now"
        /\ pc[t] = "done"
        /\ log[t][Len(log[t])].arg = <<"filefrag">>
        /\ QueryTimedOut(log[t][Len(log[t])])
        /\ result[t].success = FALSE

\* The lines of filefrag output whose first token is "0:".
ZeroLines(lines) ==
    { n \in DOMAIN lines : lines[n] # <<>> /\ lines[n][1] = <<"0:">> }

\* text is field without its trailing dots.
IsWithoutTrailingDots(text, field) ==
    /\ text = <<>> \/ text[Len(text)] # "."
    /\ Len(text) <= Len(field)
    /\ text = SubSeq(field, 1, Len(text))
    /\ \A m \in (Len(text) + 1)..Len(field) : field[m] = "."

\* C20: after a filefrag that exited 0, the offset is the fourth field,
\* without its trailing dots, of the line whose first token is "0:"; when no
\* line starts with "0:", or the lines that do have fewer than four fields,
\* the trigger returns success false and writes no /sys/power file.  (Of
\* several lines starting with "0:" the first with four fields is the one
\* taken.)
C20_OffsetFromExtentZero ==
    \A t \in Tasks :
        \A k \in DOMAIN log[t] :
            IsQueryOk(log[t][k], "filefrag") =>
                LET lines == log[t][k].val
                    full == { n \in ZeroLines(lines) : Len(lines[n]) >= 4 }
                IN  /\ full = {} =>
                          /\ pc[t] = "done"
                          /\ result[t].success = FALSE
                          /\ "error" \in DOMAIN result[t]
                          /\ ~HasEvent(t, "write")
                    /\ full # {} =>
                          /\ \E n \in full :
                                /\ \A m \in full : n <= m
                                /\ IsWithoutTrailingDots(offset[t], lines[n][4])
                          /\ \A i \in DOMAIN log[t] :
                                IsWrite(log[t][i], "/sys/power/resume_offset") =>
                                    log[t][i].val = offset[t] \o <<"\n">>

\* A trigger whose filefrag printed the extent at "34816.." wrote 34816 to
\* /sys/power/resume_offset.
C20_Witness ==
    \E t \in Tasks :
        /\ \E k \in DOMAIN log[t] :
              /\ IsQueryOk(log[t][k], "filefrag")
              /\ log[t][k].val = <<ExtentHeader, ExtentLine(<<"34816", ".", ".">>)>>
        /\ \E i \in DOMAIN log[t] :
              /\ IsWrite(log[t][i], "/sys/power/resume_offset")
              /\ log[t][i].val = <<"34816", "\n">>


\* The query e of this call was run with the command cmd.
IsQuery(e, cmd) == e.ev = "query" /\ e.arg[1] = cmd

\* C21: when findmnt exits non-zero, does not complete, or prints nothing
\* but whitespace, the trigger stops at that step: findmnt is the last
\* interaction of the call, no stat and no filefrag is run, no /sys/power
\* file is written, and the call returns success false.
C21_NoDeviceStopsAtFindmnt ==
    \A t \in Tasks :
        \A i \in DOMAIN log[t] :
            ( /\ IsQuery(log[t][i], "findmnt")
              /\ (~log[t][i].ok \/ Strip(log[t][i].val) = <<>>) ) =>
                /\ pc[t] = "done"
                /\ i = Len(log[t])
                /\ result[t].success = FALSE
                /\ \A j \in DOMAIN log[t] :
                      /\ ~IsQuery(log[t][j], "stat")
                      /\ ~IsQuery(log[t][j], "filefrag")
                      /\ log[t][j].ev # "write"


\* The number of runs of the helper with this action in the call of task t.
HelperCount(t, action) ==
    Len(SelectSeq(log[t], LAMBDA e : IsHelper(e, action)))

\* C22: a hibernate_now whose status check did not report ready, whatever
\* the report (a token below READY, UNKNOWN, or ERROR when the helper
\* failed or timed out), runs "prepare" once; when prepare exits 0 the next
\* interaction is the boot-counter reset of the trigger, and the call never
\* runs "status" a second time.
C22_NotReadyAlwaysPrepares ==
    \A t \in Tasks :
        (op[t] = "hibernate_now" /\ status[t] # NoDict /\ ~Get(status[t], "ready", FALSE)) =>
            /\ HelperCount(t, "status") = 1
            /\ pc[t] # "prepare" => HelperCount(t, "prepare") = 1
            /\ pc[t] = "prepare" => HelperCount(t, "prepare") = 0
            /\ pc[t] # "status"
            /\ \A i \in DOMAIN log[t] :
                  (IsHelper(log[t][i], "prepare") /\ log[t][i].ok) =>
                      /\ pc[t] \notin {"prepare", "status"}
                      /\ i < Len(log[t]) => log[t][i + 1].ev = "reset"
                      /\ i = Len(log[t]) => pc[t] \in {"trigger", "reset"}

\* A hibernate_now whose status helper timed out (report ERROR) prepared and
\* wrote the power state.
C22_Witness ==
    \E t \in Tasks :
        /\ op[t] = "hibernate_now"
        /\ pc[t] = "done"
        /\ status[t] # NoDict
        /\ status[t].status_code = "ERROR"
        /\ HelperTimedOut(log[t][1])
        /\ HelperCount(t, "status") = 1
        /\ WriteOk(t, "/sys/power/state")

\* The target read by the inspection of the symlink in the status check of
\* task t ("" when the path is no symlink or the inspection raised).
ProbedTarget(t) ==
    LET probes == SelectSeq(log[t], LAMBDA e : e.ev = "probe")
    IN  IF probes = <<>> THEN <<>> ELSE probes[1].val

\* C23: in a report of a status check whose helper exited 0,
\* power_button_override is true exactly when the path is a symlink whose
\* target contains "hibernate", and override_mode is
\* "suspend-then-hibernate" exactly when the target contains
\* "suspend-then-hibernate", and "hibernate" in every other case.
C23_OverrideFromLinkTarget ==
    \A t \in Tasks :
        (\E i \in DOMAIN log[t] : IsHelper(log[t][i], "status") /\ log[t][i].ok) =>
            /\ HasEvent(t, "probe")
            /\ ReportOf(t).success = TRUE
            /\ ReportOf(t).power_button_override = Contains(ProbedTarget(t), "hibernate")
            /\ ReportOf(t).override_mode \in {"hibernate", "suspend-then-hibernate"}
            /\ (ReportOf(t).override_mode = "suspend-then-hibernate")
                  = ContainsSeq(ProbedTarget(t), <<"suspend-then-", "hibernate">>)

\* A status check that found the link to the suspend-then-hibernate unit
\* reported the override with that mode.
C23_Witness ==
    \E t \in Tasks :
        /\ op[t] = "check_hibernate_status"
        /\ pc[t] = "done"
        /\ ContainsSeq(ProbedTarget(t), <<"suspend-then-", "hibernate">>)
        /\ result[t].power_button_override = TRUE
        /\ result[t].override_mode = "suspend-then-hibernate"

====
